---- MODULE Spec2Model ----
(***************************************************************************)
(* Model of trollstore.py: the click command cli() and its driver main().  *)
(*                                                                         *)
(* Strings are sequences of characters (one-character TLA+ strings), so    *)
(* that endswith, lower, split and the substring test are computed.  A     *)
(* literal word the code never takes apart ("var", "Bundle") is written as *)
(* a one-element sequence.  A path is the sequence of its segments.        *)
(***************************************************************************)
EXTENDS Integers, Sequences, FiniteSets, TLC

VARIABLES
    pc,              \* position of the run inside main()/cli()
    device_class,    \* cli: device_class
    device_build,    \* cli: device_build
    device_version,  \* cli: device_version (a parsed Version, or NoVersion)
    app,             \* cli: app
    app_given,       \* the name as the user gave it (option or prompt answer)
    apps_json,       \* cli: apps_json, a dict in iteration order
    app_path,        \* cli: app_path
    app_uuid,        \* cli: app_uuid
    helper_contents, \* cli: helper_contents
    back,            \* cli: back, the Backup's files list
    restore_call,    \* perform_restore: its reboot argument and what it did
    outcome,         \* the message branch the run took
    calls,           \* the collaborators invoked so far, in order
    exc,             \* the exception propagating out of cli(), if any
    exit_code        \* the code passed to sys.exit, or NoExit

vars == <<pc, device_class, device_build, device_version, app, app_given,
          apps_json, app_path, app_uuid, helper_contents, back, restore_call,
          outcome, calls, exc, exit_code>>

----------------------------------------------------------------------------
(* Bounds of the model *)

\* at most this many entries in the dict get_apps returns
MaxApps == 2
\* at most this many words in an error message of perform_restore
MaxMsgLen == 2

----------------------------------------------------------------------------
(* Python values *)

None == "None"
NoExit == -1
NoPath == << <<"None">> >>
NoVersion == [release |-> <<>>, key |-> <<-1>>]
NoExc == [type |-> "none", msg |-> <<>>, code |-> NoExit]

\* str.lower() on one character
LowerChar(c) ==
    CASE c = "T" -> "t"
      [] c = "A" -> "a"
      [] c = "P" -> "p"
      [] OTHER -> c

\* str.lower()
Lower(s) == [i \in 1..Len(s) |-> LowerChar(s[i])]

\* str.endswith(suffix)
EndsWith(s, suffix) ==
    /\ Len(s) >= Len(suffix)
    /\ SubSeq(s, Len(s) - Len(suffix) + 1, Len(s)) = suffix

\* needle in haystack (substring test)
Contains(haystack, needle) ==
    \E i \in 0..(Len(haystack) - Len(needle)) :
        SubSeq(haystack, i + 1, i + Len(needle)) = needle

\* ".app"
DotApp == <<".", "a", "p", "p">>

\* all sequences over S of length at most n
RECURSIVE SeqsUpTo(_, _)
SeqsUpTo(S, n) ==
    IF n = 0 THEN {<<>>}
    ELSE LET shorter == SeqsUpTo(S, n - 1)
         IN  shorter \cup {Append(s, x) : s \in shorter, x \in S}

----------------------------------------------------------------------------
(* packaging.version *)

\* Version._key drops the trailing zeros of the release: 17.0 == 17 == 17.0.0
RECURSIVE StripZeros(_)
StripZeros(r) ==
    IF Len(r) > 0 /\ r[Len(r)] = 0
    THEN StripZeros(SubSeq(r, 1, Len(r) - 1))
    ELSE r

\* parse_version of a dotted decimal string, given as its components
parse_version(s) == [release |-> s, key |-> StripZeros(s)]

\* tuple comparison a < b
RECURSIVE TupleLess(_, _)
TupleLess(a, b) ==
    IF Len(b) = 0 THEN FALSE
    ELSE IF Len(a) = 0 THEN TRUE
    ELSE IF a[1] # b[1] THEN a[1] < b[1]
    ELSE TupleLess(Tail(a), Tail(b))

\* Version.__lt__, __gt__, __eq__
VLt(a, b) == TupleLess(a.key, b.key)
VGt(a, b) == TupleLess(b.key, a.key)
VEq(a, b) == a.key = b.key

----------------------------------------------------------------------------
(* The device session *)

\* service_provider.get_value(key="DeviceClass")
DeviceClasses == {None, "iPhone"}

\* service_provider.get_value(key="BuildVersion")
DeviceBuilds == {None, "20H18", "20H17"}

\* service_provider.product_version when the device reports none
ProductVersionAbsent == <<-1>>

\* service_provider.product_version, a dotted decimal string
ProductVersions ==
    { <<14, 8>>, <<15, 0>>, <<16, 6>>, <<16, 7>>, <<16, 7, 0>>, <<16, 7, 1>>,
      <<16, 8>>, <<17, 0>>, <<17, 0, 1>>, <<18, 0>> }

\* bool(x) of a value read from the device
Truthy(x) == x # None

\* the version check with its last `and` applied to the whole disjunction
UnsupportedVersion_AndFirst(v, b) ==
    (\/ VLt(v, parse_version(<<15, 0>>))
     \/ VGt(v, parse_version(<<17, 0>>))
     \/ (VLt(parse_version(<<16, 7>>), v) /\ VLt(v, parse_version(<<17, 0>>)))
     \/ VEq(v, parse_version(<<16, 7>>)))
    /\ b # "20H18"

\* the condition of the version check
UnsupportedVersion(v, b) ==
    \/ VLt(v, parse_version(<<15, 0>>))
    \/ VGt(v, parse_version(<<17, 0>>))
    \/ (VLt(parse_version(<<16, 7>>), v) /\ VLt(v, parse_version(<<17, 0>>)))
    \/ (VEq(v, parse_version(<<16, 7>>)) /\ b # "20H18")

----------------------------------------------------------------------------
(* Exceptions *)

Raise(type, msg) == [type |-> type, msg |-> msg, code |-> NoExit]

\* exit(code) inside cli(): sys.exit raises SystemExit
SystemExit(code) == [type |-> "SystemExit", msg |-> <<>>, code |-> code]

\* perform_restore not called yet
NotSubmitted == [reboot |-> FALSE, kind |-> "none", type |-> "none", msg |-> <<>>]

----------------------------------------------------------------------------
(* Initial state: main() is about to call cli(standalone_mode=False) *)

Init ==
    /\ pc = "start"
    /\ device_class = None
    /\ device_build = None
    /\ device_version = NoVersion
    /\ app = <<>>
    /\ app_given = <<>>
    /\ apps_json = <<>>
    /\ app_path = NoPath
    /\ app_uuid = <<>>
    /\ helper_contents = ""
    /\ back = <<>>
    /\ restore_call = NotSubmitted
    /\ outcome = "none"
    /\ calls = <<>>
    /\ exc = NoExc
    /\ exit_code = NoExit

----------------------------------------------------------------------------
(* Application names and the installed-application registry *)

\* a literal word, never taken apart
W(word) == <<word>>

\* the --app option, or the answer to the prompt:
\* "t", "T", "T.app", "t.APP", "T.t"
AppInputs ==
    { <<"t">>, <<"T">>, <<"T">> \o DotApp, <<"t", ".", "A", "P", "P">>,
      <<"T", ".", "t">> }

\* Path("/private/var/containers/Bundle/Application")
RemovableRoot ==
    <<W("private"), W("var"), W("containers"), W("Bundle"), W("Application")>>

\* paths the registry may report
RegistryPaths ==
    { RemovableRoot \o <<W("U1"), <<"T", ".", "a", "p", "p">>>>,
      RemovableRoot \o <<W("U2"), <<"t", ".", "a", "p", "p">>>>,
      RemovableRoot \o <<W("U4"), <<"T", ".", "t", ".", "a", "p", "p">>>>,
      RemovableRoot \o <<W("U3"), W("sub"), <<"T", ".", "a", "p", "p">>>>,
      <<W("Applications"), <<"T", ".", "a", "p", "p">>>> }

\* values of the dict get_apps returns
RegistryValues ==
    { [isDict |-> TRUE, hasPath |-> TRUE, Path |-> p] : p \in RegistryPaths }
    \cup { [isDict |-> TRUE, hasPath |-> FALSE, Path |-> <<>>],
           [isDict |-> FALSE, hasPath |-> FALSE, Path |-> <<>>] }

\* the dicts get_apps may return, in iteration order
Registries == SeqsUpTo(RegistryValues, MaxApps)

\* PurePath.name
PathName(p) == IF Len(p) = 0 THEN <<>> ELSE p[Len(p)]

\* PurePath.parent
PathParent(p) == IF Len(p) = 0 THEN p ELSE SubSeq(p, 1, Len(p) - 1)

\* PurePath.parents
PathParents(p) == { SubSeq(p, 1, i) : i \in 0..(Len(p) - 1) }

\* app normalised: the suffix is appended when app does not end with it
WithSuffix(name) == IF EndsWith(name, DotApp) THEN name ELSE name \o DotApp

\* the loop over apps_json.items(), from item i on; yields <<app_path, app>>
RECURSIVE ScanApps(_, _, _, _)
ScanApps(items, i, path, name) ==
    IF i > Len(items) THEN <<path, name>>
    ELSE LET value == items[i]
         IN  IF /\ value.isDict
                /\ value.hasPath
                /\ Lower(PathName(value.Path)) = Lower(name)
             THEN ScanApps(items, i + 1, value.Path, PathName(value.Path))
             ELSE ScanApps(items, i + 1, path, name)

\* the removability test against the filesystem root instead of the bundle root
IsRemovable_AnyRoot(path) == <<>> \in PathParents(path)

\* Path("/private/var/containers/Bundle/Application") in app_path.parents
IsRemovable(path) == RemovableRoot \in PathParents(path)

\* the UUID read one level too high
AppUuid_GrandParent(path) == PathName(PathParent(PathParent(path)))

\* app_path.parent.name
AppUuid(path) == PathName(PathParent(path))

----------------------------------------------------------------------------
(* main() line 154: click parses the arguments, Command opens the device *)

Invoke ==
    /\ pc = "start"
    /\ \/ /\ exc' = Raise("UsageError", <<>>)
          /\ pc' = "handler"
          /\ app' = app
       \/ /\ exc' = Raise("NoDeviceConnectedError", <<>>)
          /\ pc' = "handler"
          /\ app' = app
       \/ /\ \E option \in AppInputs \cup {<<>>} : app' = option
          /\ pc' = "device_info"
          /\ exc' = exc
    /\ UNCHANGED <<device_class, device_build, device_version, app_given,
                   apps_json, app_path, app_uuid, helper_contents, back,
                   restore_call, outcome, calls, exit_code>>

(* cli() lines 39-46 *)
ReadDeviceInfo ==
    /\ pc = "device_info"
    /\ calls' = Append(calls, "device_info")
    /\ \E class \in DeviceClasses, build \in DeviceBuilds,
          pv \in ProductVersions \cup {ProductVersionAbsent} :
          /\ device_class' = class
          /\ device_build' = build
          /\ IF pv = ProductVersionAbsent
             THEN \* parse_version(None) raises TypeError
                  /\ device_version' = device_version
                  /\ exc' = Raise("TypeError", <<>>)
                  /\ outcome' = outcome
                  /\ pc' = "handler"
             ELSE /\ device_version' = parse_version(pv)
                  /\ exc' = exc
                  /\ IF ~(Truthy(class) /\ Truthy(build))
                     THEN /\ outcome' = "DeviceInfoUnavailable"
                          /\ pc' = "handler"
                     ELSE /\ outcome' = outcome
                          /\ pc' = "version_gate"
    /\ UNCHANGED <<app, app_given, apps_json, app_path, app_uuid,
                   helper_contents, back, restore_call, exit_code>>

(* cli() lines 48-58 *)
VersionGate ==
    /\ pc = "version_gate"
    /\ IF UnsupportedVersion(device_version, device_build)
       THEN /\ outcome' = "UnsupportedVersion"
            /\ pc' = "handler"
       ELSE /\ outcome' = outcome
            /\ pc' = "app_name"
    /\ UNCHANGED <<device_class, device_build, device_version, app, app_given,
                   apps_json,
                   app_path, app_uuid, helper_contents, back, restore_call,
                   calls, exc, exit_code>>

(* cli() lines 60-70 *)
AppName ==
    /\ pc = "app_name"
    /\ IF app = <<>>
       THEN \E answer \in AppInputs : app_given' = answer
       ELSE app_given' = app
    /\ app' = WithSuffix(app_given')
    /\ pc' = "resolve"
    /\ UNCHANGED <<device_class, device_build, device_version, apps_json,
                   app_path, app_uuid, helper_contents, back, restore_call,
                   outcome, calls, exc, exit_code>>

(* cli() lines 72-91 *)
ResolveApp ==
    /\ pc = "resolve"
    /\ calls' = Append(calls, "list_apps")
    /\ \E registry \in Registries :
          LET found == ScanApps(registry, 1, NoPath, app)
          IN  /\ apps_json' = registry
              /\ app_path' = found[1]
              /\ app' = found[2]
              /\ IF found[1] = NoPath
                 THEN /\ outcome' = "AppNotFound"
                      /\ app_uuid' = app_uuid
                      /\ pc' = "handler"
                 ELSE IF ~IsRemovable(found[1])
                 THEN /\ outcome' = "AppNotRemovable"
                      /\ app_uuid' = app_uuid
                      /\ pc' = "handler"
                 ELSE /\ outcome' = outcome
                      /\ app_uuid' = AppUuid(found[1])
                      /\ pc' = "fetch"
    /\ UNCHANGED <<device_class, device_build, device_version, app_given,
                   helper_contents, back, restore_call, exc, exit_code>>

----------------------------------------------------------------------------
(* The payload *)

\* response.content of a successful download
PayloadBytes == { "helper" }

(* the download with the `return` of its except clause missing *)
FetchPayload_NoReturn ==
    /\ pc = "fetch"
    /\ calls' = Append(calls, "fetch")
    /\ \/ \E content \in PayloadBytes :
             /\ helper_contents' = content
             /\ outcome' = outcome
       \/ /\ helper_contents' = helper_contents
          /\ outcome' = "PayloadUnavailable"
    /\ pc' = "build"
    /\ UNCHANGED <<device_class, device_build, device_version, app, app_given,
                   apps_json, app_path, app_uuid, back, restore_call, exc,
                   exit_code>>

(* cli() lines 93-100 *)
FetchPayload ==
    /\ pc = "fetch"
    /\ calls' = Append(calls, "fetch")
    /\ \/ \E content \in PayloadBytes :
             /\ helper_contents' = content
             /\ outcome' = outcome
             /\ pc' = "build"
       \/ \* requests.get or raise_for_status raised
          /\ helper_contents' = helper_contents
          /\ outcome' = "PayloadUnavailable"
          /\ pc' = "handler"
    /\ UNCHANGED <<device_class, device_build, device_version, app, app_given,
                   apps_json,
                   app_path, app_uuid, back, restore_call, exc, exit_code>>

----------------------------------------------------------------------------
(* The manifest *)

\* "SysContainerDomain-../../../../../../../.."
TraversalPrefix ==
    <<W("SysContainerDomain-.."), W(".."), W(".."), W(".."), W(".."), W(".."),
      W(".."), W("..")>>

\* "crash_on_purpose"
CrashMarker == W("crash_on_purpose")

\* "Find My"
FindMyMarker == W("Find My")

\* the name taken whole, without the split
FirstField_WholeName(s) == s

\* str.split('.')[0]
FirstField(s) ==
    LET dots == { i \in 1..Len(s) : s[i] = "." }
    IN  IF dots = {} THEN s
        ELSE SubSeq(s, 1, (CHOOSE i \in dots : \A j \in dots : i <= j) - 1)

\* backup.Directory(path, domain, owner=, group=)
Directory(path, domain, owner, group) ==
    [type |-> "Directory", path |-> path, domain |-> domain, owner |-> owner,
     group |-> group, contents |-> "n/a", inode |-> "n/a"]

\* backup.ConcreteFile(path, domain, owner=, group=, contents=, inode=)
ConcreteFile(path, domain, owner, group, contents, inode) ==
    [type |-> "ConcreteFile", path |-> path, domain |-> domain,
     owner |-> owner, group |-> group, contents |-> contents, inode |-> inode]

\* f".../var/backup/var/containers/Bundle/Application/{app_uuid}/{app}"
BundleDomain(uuid, name) ==
    TraversalPrefix
    \o <<W("var"), W("backup"), W("var"), W("containers"), W("Bundle"),
         W("Application"), uuid, name>>

\* the files with the executable slot listed before its bundle directory
BackupFiles_ExecutableFirst(contents, uuid, name) ==
    << Directory(<<>>, <<W("RootDomain")>>, "default", "default"),
       Directory(<<W("Library")>>, <<W("RootDomain")>>, "default", "default"),
       Directory(<<W("Library"), W("Preferences")>>, <<W("RootDomain")>>,
                 "default", "default"),
       ConcreteFile(<<W("Library"), W("Preferences"), W("temp")>>,
                    <<W("RootDomain")>>, "33", "33", contents, "0"),
       ConcreteFile(<<>>, BundleDomain(uuid, name) \o <<FirstField(name)>>,
                    "33", "33", "", "0"),
       Directory(<<>>, BundleDomain(uuid, name), "33", "33"),
       ConcreteFile(<<>>,
                    TraversalPrefix
                    \o <<W("var"), W(".backup.i"), W("var"), W("root"),
                         W("Library"), W("Preferences"), W("temp")>>,
                    "501", "501", "", "default"),
       ConcreteFile(<<>>, TraversalPrefix \o <<CrashMarker>>,
                    "default", "default", "", "default") >>

\* the files with the crash entry listed before the hard-link break
BackupFiles_MarkerEarly(contents, uuid, name) ==
    << Directory(<<>>, <<W("RootDomain")>>, "default", "default"),
       Directory(<<W("Library")>>, <<W("RootDomain")>>, "default", "default"),
       Directory(<<W("Library"), W("Preferences")>>, <<W("RootDomain")>>,
                 "default", "default"),
       ConcreteFile(<<W("Library"), W("Preferences"), W("temp")>>,
                    <<W("RootDomain")>>, "33", "33", contents, "0"),
       Directory(<<>>, BundleDomain(uuid, name), "33", "33"),
       ConcreteFile(<<>>, BundleDomain(uuid, name) \o <<FirstField(name)>>,
                    "33", "33", "", "0"),
       ConcreteFile(<<>>, TraversalPrefix \o <<CrashMarker>>,
                    "default", "default", "", "default"),
       ConcreteFile(<<>>,
                    TraversalPrefix
                    \o <<W("var"), W(".backup.i"), W("var"), W("root"),
                         W("Library"), W("Preferences"), W("temp")>>,
                    "501", "501", "", "default") >>

\* the files of backup.Backup(files=[...])
BackupFiles(contents, uuid, name) ==
    << Directory(<<>>, <<W("RootDomain")>>, "default", "default"),
       Directory(<<W("Library")>>, <<W("RootDomain")>>, "default", "default"),
       Directory(<<W("Library"), W("Preferences")>>, <<W("RootDomain")>>,
                 "default", "default"),
       ConcreteFile(<<W("Library"), W("Preferences"), W("temp")>>,
                    <<W("RootDomain")>>, "33", "33", contents, "0"),
       Directory(<<>>, BundleDomain(uuid, name), "33", "33"),
       ConcreteFile(<<>>, BundleDomain(uuid, name) \o <<FirstField(name)>>,
                    "33", "33", "", "0"),
       ConcreteFile(<<>>,
                    TraversalPrefix
                    \o <<W("var"), W(".backup.i"), W("var"), W("root"),
                         W("Library"), W("Preferences"), W("temp")>>,
                    "501", "501", "", "default"),
       ConcreteFile(<<>>, TraversalPrefix \o <<CrashMarker>>,
                    "default", "default", "", "default") >>

(* cli() lines 102-131 *)
BuildManifest ==
    /\ pc = "build"
    /\ back' = BackupFiles(helper_contents, app_uuid, app)
    /\ pc' = "restore"
    /\ UNCHANGED <<device_class, device_build, device_version, app, app_given,
                   apps_json,
                   app_path, app_uuid, helper_contents, restore_call, outcome,
                   calls, exc, exit_code>>

----------------------------------------------------------------------------
(* Restore submission and its outcome *)

\* words of an error message
MessageWords == { "Find My", "crash_on_purpose", "error" }

\* str(e) of an error perform_restore may raise
Messages == SeqsUpTo(MessageWords, MaxMsgLen)

\* the errors perform_restore may raise: a library error or another
\* exception with any message, or NoDeviceConnectedError, which carries none
RestoreErrors ==
    { [type |-> t, msg |-> m] :
        t \in { "PyMobileDevice3Exception", "Exception" }, m \in Messages }
    \cup { [type |-> "NoDeviceConnectedError", msg |-> <<>>] }

\* isinstance(e, PyMobileDevice3Exception)
IsPyMobileDevice3Exception(type) ==
    type \in { "PyMobileDevice3Exception", "NoDeviceConnectedError" }

\* the except clause with the two markers tested in the other order
Classify_CrashFirst(type, msg) ==
    IF ~IsPyMobileDevice3Exception(type) THEN "FatalOutcome"
    ELSE IF Contains(msg, CrashMarker) THEN "ExpectedOutcome"
    ELSE IF Contains(msg, FindMyMarker) THEN "FindMyBlocked"
    ELSE "FatalOutcome"

\* the except clause re-raising every library error that is not Find My
Classify_Reraise(type, msg) ==
    IF ~IsPyMobileDevice3Exception(type) THEN "FatalOutcome"
    ELSE IF Contains(msg, FindMyMarker) THEN "FindMyBlocked"
    ELSE "FatalOutcome"

\* the except clause swallowing every library error that is not Find My
Classify_Swallow(type, msg) ==
    IF ~IsPyMobileDevice3Exception(type) THEN "FatalOutcome"
    ELSE IF Contains(msg, FindMyMarker) THEN "FindMyBlocked"
    ELSE "ExpectedOutcome"

\* the try/except around perform_restore: which branch an error takes
Classify(type, msg) ==
    IF ~IsPyMobileDevice3Exception(type) THEN "FatalOutcome"
    ELSE IF Contains(msg, FindMyMarker) THEN "FindMyBlocked"
    ELSE IF ~Contains(msg, CrashMarker) THEN "FatalOutcome"
    ELSE "ExpectedOutcome"

\* the restore asked to reboot the device itself
RebootArgument_True == TRUE

\* the reboot keyword of perform_restore(back, reboot=False)
RebootArgument == FALSE

(* cli() lines 133-141 *)
SubmitRestore ==
    /\ pc = "restore"
    /\ calls' = Append(calls, "restore")
    /\ \/ /\ restore_call' =
                [reboot |-> RebootArgument, kind |-> "returned", type |-> "none",
                 msg |-> <<>>]
          /\ outcome' = "RestoreReturned"
          /\ exc' = exc
          /\ pc' = "reboot"
       \/ \E e \in RestoreErrors :
             /\ restore_call' =
                   [reboot |-> RebootArgument, kind |-> "raised", type |-> e.type,
                    msg |-> e.msg]
             /\ outcome' = Classify(e.type, e.msg)
             /\ CASE outcome' = "FindMyBlocked" ->
                        /\ exc' = SystemExit(1)
                        /\ pc' = "handler"
                  [] outcome' = "FatalOutcome" ->
                        /\ exc' = Raise(e.type, e.msg)
                        /\ pc' = "handler"
                  [] OTHER ->
                        /\ exc' = exc
                        /\ pc' = "reboot"
    /\ UNCHANGED <<device_class, device_build, device_version, app, app_given,
                   apps_json,
                   app_path, app_uuid, helper_contents, back, exit_code>>

\* classes of the errors the diagnostics service may raise
RebootErrorTypes == { "PyMobileDevice3Exception" }

(* cli() lines 143-149 *)
Reboot ==
    /\ pc = "reboot"
    /\ calls' = Append(calls, "reboot")
    /\ \/ exc' = exc
       \/ \E type \in RebootErrorTypes : exc' = Raise(type, <<>>)
    /\ pc' = "handler"
    /\ UNCHANGED <<device_class, device_build, device_version, app, app_given,
                   apps_json,
                   app_path, app_uuid, helper_contents, back, restore_call,
                   outcome, exit_code>>

----------------------------------------------------------------------------
(* main(): the except clauses and the final exit(0) *)

\* main() with the last handler falling through to exit(0)
ExitCode_FallThrough(e) ==
    CASE e.type = "none" -> 0
      [] e.type = "SystemExit" -> e.code
      [] e.type = "NoDeviceConnectedError" -> 1
      [] e.type = "UsageError" -> 2
      [] OTHER -> 0

\* the code the process exits with, given what cli() raised
ExitCode(e) ==
    CASE e.type = "none" -> 0
      [] e.type = "SystemExit" -> e.code
      [] e.type = "NoDeviceConnectedError" -> 1
      [] e.type = "UsageError" -> 2
      [] OTHER -> 1

(* main() lines 152-167 *)
MainExit ==
    /\ pc = "handler"
    /\ exit_code' = ExitCode(exc)
    /\ pc' = "exited"
    /\ UNCHANGED <<device_class, device_build, device_version, app, app_given,
                   apps_json,
                   app_path, app_uuid, helper_contents, back, restore_call,
                   outcome, calls, exc>>

----------------------------------------------------------------------------

Next ==
    \/ Invoke
    \/ ReadDeviceInfo
    \/ VersionGate
    \/ AppName
    \/ ResolveApp
    \/ FetchPayload
    \/ BuildManifest
    \/ SubmitRestore
    \/ Reboot
    \/ MainExit

Spec == Init /\ [][Next]_vars

----------------------------------------------------------------------------
(* Vocabulary of the properties *)

\* how many times x occurs in the sequence s
Count(x, s) == Cardinality({ i \in 1..Len(s) : s[i] = x })

\* p is a prefix of q
IsPrefix(p, q) == Len(p) <= Len(q) /\ SubSeq(q, 1, Len(p)) = p

\* cli() has ended, by returning or by raising
CliEnded == pc \in { "handler", "exited" }

\* the run reached Done: the reboot was invoked last and returned normally
ReachedDone ==
    /\ CliEnded
    /\ exc = NoExc
    /\ Len(calls) > 0
    /\ calls[Len(calls)] = "reboot"

\* the failures that can occur before the restore is submitted
PreRestoreFailures ==
    { "DeviceInfoUnavailable", "UnsupportedVersion", "AppNotFound",
      "AppNotRemovable", "PayloadUnavailable" }

\* a dotted version as one number, missing components counting as zero
VersionNumber(r) ==
    (IF Len(r) >= 1 THEN r[1] * 10000 ELSE 0)
    + (IF Len(r) >= 2 THEN r[2] * 100 ELSE 0)
    + (IF Len(r) >= 3 THEN r[3] ELSE 0)

\* the supported window as the specification words it
InSupportedWindow(r, b) ==
    LET n == VersionNumber(r)
    IN  /\ 150000 <= n
        /\ n <= 170000
        /\ ~(160700 < n /\ n < 170000)
        /\ (n # 160700 \/ b = "20H18")

\* the version check has been made on a complete device descriptor
GateDecided ==
    /\ pc \notin { "start", "device_info", "version_gate" }
    /\ Truthy(device_class)
    /\ Truthy(device_build)
    /\ device_version # NoVersion

----------------------------------------------------------------------------
(* C1: with device class and build present, the run proceeds past the     *)
(* version check exactly when 15.0 <= v <= 17.0, v is not strictly between *)
(* 16.7 and 17.0, and v is not 16.7 unless the build is 20H18; otherwise   *)
(* it stops with UnsupportedVersion.  16.6 and 16.7/20H18 pass, 16.7/20H17 *)
(* and 17.0.1 fail.                                                        *)
C1_VersionGate ==
    GateDecided =>
        /\ IF InSupportedWindow(device_version.release, device_build)
           THEN outcome # "UnsupportedVersion"
           ELSE /\ outcome = "UnsupportedVersion"
                /\ CliEnded
                /\ calls = <<"device_info">>
        /\ device_version.release = <<16, 6>> => outcome # "UnsupportedVersion"
        /\ (device_version.release = <<16, 7>> /\ device_build = "20H18")
              => outcome # "UnsupportedVersion"
        /\ (device_version.release = <<16, 7>> /\ device_build = "20H17")
              => outcome = "UnsupportedVersion"
        /\ device_version.release = <<17, 0, 1>>
              => outcome = "UnsupportedVersion"

\* a 16.7.0 device with the release-candidate build is past the check
C1_Witness ==
    /\ pc = "app_name"
    /\ device_version.release = <<16, 7, 0>>
    /\ device_build = "20H18"

(* C2: a run that ends in a terminal failure exits with a non-zero code;  *)
(* exit code 0 only after Done, exit code 2 only after a usage error.      *)
C2_FailuresExitNonZero ==
    pc = "exited" =>
        /\ (\/ outcome \in PreRestoreFailures
            \/ outcome \in { "FindMyBlocked", "FatalOutcome" }
            \/ exc.type = "NoDeviceConnectedError") => exit_code # 0
        /\ exit_code = 0 => ReachedDone
        /\ exit_code = 2 => exc.type = "UsageError"

(* C3, as stated: an error of perform_restore is ExpectedOutcome when its *)
(* message contains "crash_on_purpose", FindMyBlocked when it contains     *)
(* "Find My", FatalOutcome otherwise and then propagates unchanged; for    *)
(* every message and every error type.                                     *)
C3_AsStated ==
    restore_call.kind = "raised" =>
        /\ Contains(restore_call.msg, CrashMarker) => outcome = "ExpectedOutcome"
        /\ Contains(restore_call.msg, FindMyMarker) => outcome = "FindMyBlocked"
        /\ (/\ ~Contains(restore_call.msg, CrashMarker)
            /\ ~Contains(restore_call.msg, FindMyMarker))
              => /\ outcome = "FatalOutcome"
                 /\ exc = Raise(restore_call.type, restore_call.msg)

(* C3, amended: for an error of the PyMobileDevice3Exception family, the  *)
(* outcome is FindMyBlocked when the message contains "Find My" (also when *)
(* it contains both markers), ExpectedOutcome when it contains             *)
(* "crash_on_purpose" and not "Find My", FatalOutcome otherwise; an error  *)
(* of any other type is FatalOutcome whatever its message.  A FatalOutcome *)
(* error propagates out of cli() unchanged.                                *)
C3_Classification ==
    restore_call.kind = "raised" =>
        LET library == IsPyMobileDevice3Exception(restore_call.type)
            findMy == Contains(restore_call.msg, FindMyMarker)
            crash == Contains(restore_call.msg, CrashMarker)
        IN  /\ (library /\ findMy) => outcome = "FindMyBlocked"
            /\ (library /\ crash /\ ~findMy) => outcome = "ExpectedOutcome"
            /\ (~library \/ (~crash /\ ~findMy))
                  => /\ outcome = "FatalOutcome"
                     /\ CliEnded
                     /\ exc = Raise(restore_call.type, restore_call.msg)

\* a library error carrying both markers was classified FindMyBlocked
C3_Witness ==
    /\ restore_call.kind = "raised"
    /\ restore_call.type = "PyMobileDevice3Exception"
    /\ restore_call.msg = <<"crash_on_purpose", "Find My">>
    /\ outcome = "FindMyBlocked"

(* C4, as stated: whenever perform_restore raises an error whose message  *)
(* is the terminal marker, the reboot is then invoked exactly once, and if *)
(* it returns normally the run reaches Done and exits with code 0.         *)
C4_AsStated ==
    (restore_call.kind = "raised" /\ restore_call.msg = CrashMarker) =>
        /\ pc = "reboot" => Count("reboot", calls) = 0
        /\ pc # "reboot" => Count("reboot", calls) = 1
        /\ (pc = "exited" /\ exc = NoExc) => (ReachedDone /\ exit_code = 0)

(* C4, amended: whenever perform_restore raises an error of the           *)
(* PyMobileDevice3Exception family whose message is the terminal marker,   *)
(* the reboot is then invoked exactly once, and if it returns normally the *)
(* run reaches Done and exits with code 0.                                 *)
C4_MarkerThenReboot ==
    (/\ restore_call.kind = "raised"
     /\ IsPyMobileDevice3Exception(restore_call.type)
     /\ restore_call.msg = CrashMarker) =>
        /\ pc \in { "reboot", "handler", "exited" }
        /\ pc = "reboot" => Count("reboot", calls) = 0
        /\ pc # "reboot" => Count("reboot", calls) = 1
        /\ (CliEnded /\ exc = NoExc) => ReachedDone
        /\ (pc = "exited" /\ exc = NoExc) => exit_code = 0

\* the marker error was raised, the reboot returned, the process exited 0
C4_Witness ==
    /\ restore_call.kind = "raised"
    /\ restore_call.msg = CrashMarker
    /\ calls = <<"device_info", "list_apps", "fetch", "restore", "reboot">>
    /\ exc = NoExc
    /\ exit_code = 0

(* C5: when the error of perform_restore is classified FindMyBlocked or   *)
(* FatalOutcome, the reboot is never invoked, the restore is not submitted *)
(* again, and the process exits with code 1.                               *)
C5_NoRebootAfterFailure ==
    outcome \in { "FindMyBlocked", "FatalOutcome" } =>
        /\ CliEnded
        /\ Count("reboot", calls) = 0
        /\ Count("restore", calls) = 1
        /\ calls[Len(calls)] = "restore"
        /\ pc = "exited" => exit_code = 1

\* a fatal error of another type ended the process with code 1, no reboot
C5_Witness ==
    /\ outcome = "FatalOutcome"
    /\ restore_call.type = "Exception"
    /\ pc = "exited"
    /\ exit_code = 1
    /\ Count("reboot", calls) = 0

(* C6: a failure before the restore submission is terminal: once it has   *)
(* occurred no later step runs, so the collaborators after it (app         *)
(* listing, payload fetch, restore, reboot) are never invoked.             *)
C6_PreRestoreFailureTerminal ==
    outcome \in PreRestoreFailures =>
        /\ CliEnded
        /\ back = <<>>
        /\ restore_call = NotSubmitted
        /\ calls =
              CASE outcome \in { "DeviceInfoUnavailable", "UnsupportedVersion" }
                      -> <<"device_info">>
                [] outcome \in { "AppNotFound", "AppNotRemovable" }
                      -> <<"device_info", "list_apps">>
                [] OTHER -> <<"device_info", "list_apps", "fetch">>

\* the download failed and the process ended with nothing submitted
C6_Witness ==
    /\ outcome = "PayloadUnavailable"
    /\ pc = "exited"
    /\ calls = <<"device_info", "list_apps", "fetch">>

----------------------------------------------------------------------------
(* Vocabulary of the App Resolver properties *)

\* the registry has been read and scanned
ResolveDone == \E i \in 1..Len(calls) : calls[i] = "list_apps"

\* the resolver succeeded
Resolved == ResolveDone /\ outcome \notin { "AppNotFound", "AppNotRemovable" }

\* a name without regard to letter case or to a missing ".app"
Canon(name) ==
    LET lower == Lower(name)
    IN  IF EndsWith(lower, DotApp) THEN lower ELSE lower \o DotApp

\* the registry entry carries a path whose final segment is the name asked for
EntryMatches(value, name) ==
    /\ value.isDict
    /\ value.hasPath
    /\ Len(value.Path) > 0
    /\ Lower(value.Path[Len(value.Path)]) = Lower(name)

\* positions of the registry entries matching the name
MatchingEntries(registry, name) ==
    { i \in 1..Len(registry) : EntryMatches(registry[i], name) }

\* the least element of a non-empty set of numbers
Least(S) == CHOOSE i \in S : \A j \in S : i <= j

\* the path lies strictly below the removable-bundle root
BelowRemovableRoot(path) ==
    IsPrefix(RemovableRoot, path) /\ Len(path) > Len(RemovableRoot)

\* what cli() lines 69-91 make of a registry and a name: path, UUID, failure
ResolutionOf(registry, name) ==
    LET found == ScanApps(registry, 1, NoPath, WithSuffix(name))
    IN  IF found[1] = NoPath
        THEN [path |-> NoPath, bundle |-> <<>>, uuid |-> <<>>,
              failure |-> "AppNotFound"]
        ELSE IF ~IsRemovable(found[1])
        THEN [path |-> found[1], bundle |-> found[2], uuid |-> <<>>,
              failure |-> "AppNotRemovable"]
        ELSE [path |-> found[1], bundle |-> found[2],
              uuid |-> AppUuid(found[1]), failure |-> "none"]

\* the resolution this run made
ResolutionMade ==
    [path |-> app_path,
     bundle |-> IF app_path = NoPath THEN <<>> ELSE app,
     uuid |-> app_uuid,
     failure |-> IF Resolved THEN "none" ELSE outcome]

(* C7: when several registry entries carry a path whose final segment     *)
(* matches the requested name case-insensitively, the resolver selects the *)
(* first of them in iteration order; bundle name, UUID and removability    *)
(* verdict are those of that first entry.                                  *)
C7_FirstMatchSelected ==
    LET matching == MatchingEntries(apps_json, WithSuffix(app_given))
    IN  (ResolveDone /\ matching # {}) =>
            LET first == apps_json[Least(matching)].Path
            IN  /\ app_path = first
                /\ app = first[Len(first)]
                /\ (outcome = "AppNotRemovable") <=> ~BelowRemovableRoot(first)
                /\ Resolved => app_uuid = first[Len(first) - 1]

(* C8: two names that differ only in letter case or in the presence of    *)
(* the ".app" suffix resolve alike on the same registry (same path, bundle *)
(* name and UUID, or the same failure), and resolving the same name again  *)
(* gives the same result.                                                  *)
C8_CaseAndSuffixInsensitive ==
    ResolveDone =>
        \A other \in AppInputs :
            Canon(other) = Canon(app_given)
                => ResolutionOf(apps_json, other) = ResolutionMade

(* C9: a matched path that does not have the removable-bundle root among  *)
(* its ancestors fails with AppNotRemovable although the name matches; a   *)
(* registry with no matching path fails with AppNotFound; in neither case  *)
(* is a UUID produced or a manifest built.                                 *)
C9_RejectsNonRemovable ==
    ResolveDone =>
        /\ (app_path # NoPath /\ ~BelowRemovableRoot(app_path))
              => /\ outcome = "AppNotRemovable"
                 /\ Lower(app_path[Len(app_path)]) = Lower(WithSuffix(app_given))
                 /\ CliEnded
                 /\ app_uuid = <<>>
                 /\ back = <<>>
        /\ (LET wanted == Canon(app_given)
            IN  \A i \in 1..Len(apps_json) :
                    ~EntryMatches(apps_json[i], wanted))
              => /\ outcome = "AppNotFound"
                 /\ app_path = NoPath
                 /\ CliEnded
                 /\ app_uuid = <<>>
                 /\ back = <<>>

\* a built-in app outside the removable root matched by name and was rejected
C9_Witness ==
    /\ outcome = "AppNotRemovable"
    /\ app_path = <<W("Applications"), <<"T", ".", "a", "p", "p">>>>
    /\ pc = "exited"

(* C10: on success the bundle name is the final path segment as the       *)
(* registry stores it (device casing) and the UUID is the name of the      *)
(* bundle path's parent directory; these two values are the ones in the    *)
(* traversal domains of the manifest that is submitted.  A lone registry   *)
(* path <root>/U1/T.app with the name "T" gives bundle name "T.app" and    *)
(* UUID "U1".                                                              *)
C10_BundleNameAndUuid ==
    Resolved =>
        /\ \E i \in 1..Len(apps_json) :
              apps_json[i].hasPath /\ apps_json[i].Path = app_path
        /\ app = app_path[Len(app_path)]
        /\ app_uuid = app_path[Len(app_path) - 1]
        /\ pc = "restore" =>
              LET reentries ==
                    { i \in 1..Len(back) :
                        \E k \in 1..Len(back[i].domain) :
                            back[i].domain[k] = W("Application") }
              IN  /\ Cardinality(reentries) = 2
                  /\ \A i \in reentries :
                        \E k \in 1..(Len(back[i].domain) - 2) :
                            /\ back[i].domain[k] = W("Application")
                            /\ back[i].domain[k + 1] = app_uuid
                            /\ back[i].domain[k + 2] = app
        /\ (/\ apps_json = << [isDict |-> TRUE, hasPath |-> TRUE,
                               Path |-> RemovableRoot
                                        \o <<W("U1"),
                                             <<"T", ".", "a", "p", "p">>>>] >>
            /\ app_given = <<"T">>)
              => /\ app = <<"T", ".", "a", "p", "p">>
                 /\ app_uuid = W("U1")

\* the user typed "t", the device stores T.app under U1, the manifest is built
C10_Witness ==
    /\ app_given = <<"t">>
    /\ app_path = RemovableRoot \o <<W("U1"), <<"T", ".", "a", "p", "p">>>>
    /\ app = <<"T", ".", "a", "p", "p">>
    /\ app_uuid = W("U1")
    /\ back # <<>>

----------------------------------------------------------------------------
(* Vocabulary of the manifest properties *)

\* the manifest has been built and is about to be submitted
ManifestBuilt == pc = "restore"

\* where an entry lands: its domain joined with its relative path
Target(entry) == entry.domain \o entry.path

\* p is a proper prefix of q
IsProperPrefix(p, q) == Len(p) < Len(q) /\ SubSeq(q, 1, Len(p)) = p

\* every ancestor of entry i inside its domain's first segment is the target
\* of a Directory entry listed before i
AncestorsListedBefore(files, i) ==
    \A n \in 1..(Len(Target(files[i])) - 1) :
        \E j \in 1..(i - 1) :
            /\ files[j].type = "Directory"
            /\ Target(files[j]) = SubSeq(Target(files[i]), 1, n)

(* C11: in the manifest, every Directory entry whose target location     *)
(* (domain joined with relative path) is a proper path prefix of another   *)
(* entry's target location stands strictly before that entry.  The three   *)
(* RootDomain directories precede Library/Preferences/temp, and the        *)
(* traversal-domain Directory of the bundle precedes the executable file   *)
(* placed inside it.                                                       *)
C11_DirectoriesFirst ==
    ManifestBuilt =>
        /\ \A i \in 1..Len(back) : \A j \in 1..Len(back) :
              (/\ back[j].type = "Directory"
               /\ IsProperPrefix(Target(back[j]), Target(back[i]))) => j < i
        /\ \E i \in 1..Len(back) :
              /\ back[i].type = "ConcreteFile"
              /\ Target(back[i]) =
                    <<W("RootDomain"), W("Library"), W("Preferences"), W("temp")>>
              /\ AncestorsListedBefore(back, i)
        /\ \E i \in 1..Len(back) : \E j \in 1..(i - 1) :
              /\ back[i].type = "ConcreteFile"
              /\ back[j].type = "Directory"
              /\ Target(back[j]) = BundleDomain(app_uuid, app)
              /\ IsProperPrefix(Target(back[j]), Target(back[i]))

\* a manifest whose bundle directory is an ancestor of the entry after it
C11_Witness ==
    /\ ManifestBuilt
    /\ back[5].type = "Directory"
    /\ back[6].type = "ConcreteFile"
    /\ IsProperPrefix(Target(back[5]), Target(back[6]))

\* the characters of a name before its first '.'
RECURSIVE BeforeFirstDot(_)
BeforeFirstDot(s) ==
    IF s = <<>> \/ Head(s) = "." THEN <<>>
    ELSE <<Head(s)>> \o BeforeFirstDot(Tail(s))

\* positions of the Directory entries of the traversal domain
TraversalDirectories(files) ==
    { i \in 1..Len(files) :
        /\ files[i].type = "Directory"
        /\ IsPrefix(TraversalPrefix, files[i].domain) }

(* C12 as stated: the ConcreteFile right after the traversal Directory has  *)
(* empty contents, the Directory's own domain, and the executable name as   *)
(* its relative path.                                                       *)
C12_AsStated ==
    ManifestBuilt =>
        \A i \in TraversalDirectories(back) :
            /\ i < Len(back)
            /\ back[i + 1].type = "ConcreteFile"
            /\ back[i + 1].contents = ""
            /\ back[i + 1].domain = back[i].domain
            /\ back[i + 1].path = <<BeforeFirstDot(app)>>

(* C12: the ConcreteFile right after the traversal Directory has empty      *)
(* contents, an empty relative path, and a domain equal to the Directory's  *)
(* domain followed by one more segment, the bundle name up to its first     *)
(* '.'; its target location is that name inside the bundle directory.       *)
C12_ExecutableSlot ==
    ManifestBuilt =>
        /\ TraversalDirectories(back) # {}
        /\ \A i \in TraversalDirectories(back) :
              /\ i < Len(back)
              /\ back[i + 1].type = "ConcreteFile"
              /\ back[i + 1].contents = ""
              /\ back[i + 1].path = <<>>
              /\ back[i + 1].domain = back[i].domain \o <<BeforeFirstDot(app)>>
              /\ back[i].domain = BundleDomain(app_uuid, app)

\* a manifest whose slot entry carries the executable name in its domain
C12_Witness ==
    /\ ManifestBuilt
    /\ 5 \in TraversalDirectories(back)
    /\ back[6].path = <<>>
    /\ back[6].domain = back[5].domain \o <<BeforeFirstDot(app)>>
    /\ BeforeFirstDot(app) # <<>>

----------------------------------------------------------------------------
(* Vocabulary of the device information properties *)

\* the device information has been read
DeviceInfoRead == calls # <<>> /\ pc # "device_info"

\* one of the three fields came back absent
SomeFieldAbsent ==
    \/ ~Truthy(device_class)
    \/ ~Truthy(device_build)
    \/ device_version = NoVersion

(* C13: once the device information has been read with any one of device   *)
(* class, build identifier or OS version absent (the version alone          *)
(* included), the run fails with the dedicated DeviceInfoUnavailable        *)
(* outcome and no further step is taken.                                    *)
C13_AnyFieldAbsent ==
    (DeviceInfoRead /\ SomeFieldAbsent) =>
        /\ outcome = "DeviceInfoUnavailable"
        /\ exc = NoExc
        /\ calls = <<"device_info">>
        /\ CliEnded

----------------------------------------------------------------------------
(* Vocabulary of the collaborator properties *)

\* the order in which cli() reaches its collaborators
CollaboratorOrder == <<"device_info", "list_apps", "fetch", "restore", "reboot">>

\* the collaborator has been called in this run
Invoked(name) == \E i \in 1..Len(calls) : calls[i] = name

(* C14: the collaborators are called in the fixed order device-info read,   *)
(* app listing, payload fetch, restore, reboot, each at most once; one is   *)
(* called only after every earlier one was called and gave its result; the  *)
(* restore is always submitted with reboot = False.                         *)
C14_FixedOrder ==
    /\ IsPrefix(calls, CollaboratorOrder)
    /\ Invoked("list_apps") =>
          /\ Truthy(device_class) /\ Truthy(device_build)
          /\ device_version # NoVersion
    /\ Invoked("fetch") => app_path # NoPath
    /\ Invoked("restore") =>
          /\ helper_contents \in PayloadBytes
          /\ back = BackupFiles(helper_contents, app_uuid, app)
          /\ restore_call.kind \in {"returned", "raised"}
          /\ restore_call.reboot = FALSE
    /\ Invoked("reboot") => restore_call.kind \in {"returned", "raised"}

\* a run that called all five collaborators
C14_Witness ==
    /\ calls = CollaboratorOrder
    /\ pc = "exited"
    /\ restore_call.reboot = FALSE

----------------------------------------------------------------------------
(* Vocabulary of the executable name property *)

\* a name without its trailing extension: cut at the last '.'
RECURSIVE BeforeLastDot(_)
BeforeLastDot(s) ==
    IF \A i \in 1..Len(s) : s[i] # "." THEN s
    ELSE IF s[Len(s)] = "." THEN SubSeq(s, 1, Len(s) - 1)
    ELSE BeforeLastDot(SubSeq(s, 1, Len(s) - 1))

\* the last segment of the location where the entry lands
TargetName(entry) == Target(entry)[Len(Target(entry))]

(* C15: for every resolved bundle name, names with further '.' before the   *)
(* ".app" included, the executable name of the executable-slot entry is the *)
(* bundle name with only its trailing extension removed.                    *)
C15_ExecutableName ==
    ManifestBuilt =>
        \A i \in TraversalDirectories(back) :
            TargetName(back[i + 1]) = BeforeLastDot(app)

----------------------------------------------------------------------------
(* Vocabulary of the crash marker property *)

\* positions of the entries that carry the marker in domain or relative path
MarkerEntries(files) ==
    { i \in 1..Len(files) :
        \E k \in 1..Len(Target(files[i])) : Target(files[i])[k] = CrashMarker }

\* what an in-order restore has applied when it raises at the first entry
\* that carries the marker
AppliedBeforeMarker(files) ==
    SubSeq(files, 1, Least(MarkerEntries(files)) - 1)

(* C16: in every manifest built exactly one entry carries the marker        *)
(* "crash_on_purpose" in its domain or relative path, and it is the last    *)
(* entry; a restore that applies the entries in order and raises at the     *)
(* first entry carrying the marker has then applied every other entry.      *)
C16_MarkerLast ==
    ManifestBuilt =>
        /\ MarkerEntries(back) = { Len(back) }
        /\ AppliedBeforeMarker(back) = SubSeq(back, 1, Len(back) - 1)
        /\ \A i \in 1..Len(back) :
              i \notin MarkerEntries(back) =>
                  \E k \in 1..Len(AppliedBeforeMarker(back)) :
                      AppliedBeforeMarker(back)[k] = back[i]

\* a manifest whose last entry carries the marker, after seven others
C16_Witness ==
    /\ ManifestBuilt
    /\ Len(back) \in MarkerEntries(back)
    /\ Len(AppliedBeforeMarker(back)) = Len(back) - 1
    /\ Len(back) > 1

----------------------------------------------------------------------------
(* Vocabulary of the reboot properties *)

\* perform_restore returned without raising
RestoreReturnedNormally == restore_call.kind = "returned"

\* perform_restore raised the error the code takes for the expected crash
RestoreRaisedExpected ==
    /\ restore_call.kind = "raised"
    /\ outcome = "ExpectedOutcome"
    /\ Contains(restore_call.msg, CrashMarker)

(* C17: when perform_restore returns normally the run goes on as after the  *)
(* expected crash: the reboot is invoked exactly once and, if it returns,   *)
(* the process exits 0.  The reboot is invoked only after a restore that    *)
(* returned normally or raised the expected error; an error of the reboot   *)
(* propagates, the process exits 1 and nothing is retried.                  *)
C17_RebootAfterNormalReturn ==
    /\ RestoreReturnedNormally =>
          /\ pc = "reboot" \/ CliEnded
          /\ pc = "reboot" => Count("reboot", calls) = 0
          /\ CliEnded => Count("reboot", calls) = 1
          /\ (pc = "exited" /\ exc = NoExc) => exit_code = 0
    /\ Invoked("reboot") =>
          /\ Count("restore", calls) = 1
          /\ Count("reboot", calls) = 1
          /\ RestoreReturnedNormally \/ RestoreRaisedExpected
          /\ CliEnded
          /\ exc # NoExc =>
                /\ exc.type \in RebootErrorTypes
                /\ pc = "exited" => exit_code = 1

\* perform_restore returned normally, the device was rebooted once, exit 0
C17_Witness ==
    /\ RestoreReturnedNormally
    /\ Count("reboot", calls) = 1
    /\ pc = "exited"
    /\ exit_code = 0

----------------------------------------------------------------------------
(* Vocabulary of the bundle path shape property *)

\* the path a traversal domain re-enters after var/backup
ReentryPath(domain) ==
    SubSeq(domain, Len(TraversalPrefix) + 3, Len(domain))

\* the registry path as seen through /var, the link to /private/var
UnderVar(path) == Tail(path)

(* C18: whenever the app is resolved the selected path is exactly           *)
(* <removable root>/<UUID>/<bundle name>: the UUID is the segment directly  *)
(* below the removable root, and the manifest's re-entry path                *)
(* var/containers/Bundle/Application/<UUID>/<bundle name> is the registry   *)
(* path's directory, for every path that passes the removability check,     *)
(* paths nested deeper below the root included.                             *)
C18_PathShape ==
    Resolved =>
        /\ app_path = RemovableRoot \o <<app_uuid, app>>
        /\ app_uuid = app_path[Len(RemovableRoot) + 1]
        /\ ManifestBuilt =>
              \A i \in TraversalDirectories(back) :
                  ReentryPath(back[i].domain) = UnderVar(app_path)

====
